---- MODULE Spec2Model ----
(***************************************************************************)
(* The aws_sqs input of internal/impl/aws/input_sqs.go as a state machine: *)
(* the in-flight tracker, the fetch loop (readLoop), the ack/refresh loop  *)
(* (ackLoop) with its asynchronous refresh passes, the consumer side       *)
(* (Read and the ackFn closure) and the two-phase shutdown (Close).        *)
(*                                                                         *)
(* A received message is named by its position in the order of receipt;    *)
(* the position also names the message's handle.  The three unbuffered     *)
(* channels are rendezvous: a send and its receive are one step.  An RPC   *)
(* is one step of the goroutine that issues it.  The clock counts whole    *)
(* seconds, the resolution of sqsMessageDeadline.                          *)
(***************************************************************************)
EXTENDS Integers, Sequences, FiniteSets, TLC

VARIABLES
    conf,      \* sqsiConfig, fixed after construction
    more,      \* the loops and trackers that further Connect calls have started
    env,       \* the environment of a run: the queue's content, the clock's horizon, the consumer's parallelism
    sig,       \* closeSignal: soft stop, hard stop, has stopped
    rl,        \* readLoop: position and pendingMsgs
    al,        \* ackLoop: position, pendingAcks, pendingNacks
    rf,        \* refresh passes: goroutines spawned, refreshLock holder's position and captured handles
    handles,   \* sqsInFlightTracker.handles (the handles it maps to)
    deadline,  \* sqsMessageHandle.deadline of every handle
    nextH,     \* number of messages received so far
    cons,      \* the consumer's view of each message
    cl,        \* the Close call: where it stands, whether its ctx has a deadline, its error
    now,       \* the clock, in seconds
    tickDue,   \* flushTimer.C holds a tick
    log        \* what the queue service has received: per handle the delete, reset (timeout 0) and
               \* extension entries so far; the handles AddNew has inserted and the second it did;
               \* who issued a call
               \* after Close returned nil; whether a second passed with the previous tick unserved

vars == <<conf, env, more, sig, rl, al, rf, handles, deadline, nextH, cons, cl, now, tickDue, log>>

----------------------------------------------------------------------------
(* Bounds of the model. *)

NumMsgs == 2        \* messages the queue holds
MaxTime == 2        \* seconds the clock runs
MaxHeld == 2        \* messages the consumer processes at a time
MaxSpawned == 1     \* refresh goroutines spawned and not yet scheduled
MaxFlush == 21      \* handles the batching functions are given at once
MaxConnects == 2    \* Connect calls on one reader
MaxBackoff == 3     \* intervals the backoff distinguishes, from InitialInterval to MaxInterval

(* Program constants. *)

DELETED == -1
maxBatchSize == 10

Min(a, b) == IF a < b THEN a ELSE b

Msgs == 1..env.nMsgs

IdOf(m) == env.id[m]

RECURSIVE SeqOfSet(_)
SeqOfSet(S) ==
    IF S = {} THEN <<>>
    ELSE LET x == CHOOSE y \in S : \A z \in S : y <= z
         IN  <<x>> \o SeqOfSet(S \ {x})

Range(s) == {s[i] : i \in DOMAIN s}

----------------------------------------------------------------------------
(* sqsMessageDeadline *)

IsDeleted(d) == d = DELETED

(* sqsInFlightTracker *)

(* AddNew that never finds the tracker full. *)
AtCapacityNever(t) == FALSE

(* AddNew that waits only when the tracker is above the limit. *)
AtCapacityAbove(t) == Cardinality(t) > conf.MaxOutstanding

AtCapacity(t) == Cardinality(t) >= conf.MaxOutstanding

(* A Remove that deletes nothing. *)
TrackerRemoveNothing(t, id) == t

TrackerRemove(t, id) == {h \in t : IdOf(h) # id}

RECURSIVE TrackerInsert(_, _)
TrackerInsert(t, msgs) ==
    IF msgs = <<>> THEN t
    ELSE TrackerInsert(TrackerRemove(t, IdOf(Head(msgs))) \cup {Head(msgs)}, Tail(msgs))

(* Remove and Clear that wake nobody. *)
SignalLost(r) == r

Signal(r) == IF r.pc = "wait" THEN [r EXCEPT !.pc = "woken"] ELSE r

(* The tracker's mutex is held by a PullToRefresh that is between two of its steps. *)
TrackerLocked == rf.pc = "pull"

(* PullToRefresh skips a handle on this condition. *)
PullSkips(d, t) == 2 * (d - t) < conf.MessageTimeout

PullSelected(t, dl, time) == {h \in t : ~PullSkips(dl[h], time)}

----------------------------------------------------------------------------
(* The batches of deleteMessages and updateVisibilityMessages. *)

RECURSIVE DeleteBatches(_)
DeleteBatches(msgs) ==
    IF msgs = <<>> THEN <<>>
    ELSE LET n == Min(Len(msgs), maxBatchSize)
         IN  <<SubSeq(msgs, 1, n)>> \o DeleteBatches(SubSeq(msgs, n + 1, Len(msgs)))

(* One pass of the inner loop of updateVisibilityMessages over msgs. *)
RECURSIVE VisScan(_, _, _, _)
VisScan(msgs, i, sent, dl) ==
    IF i > Len(msgs) THEN [sent |-> sent, consumed |-> Len(msgs)]
    ELSE IF IsDeleted(dl[msgs[i]]) THEN VisScan(msgs, i + 1, sent, dl)
    ELSE IF Len(sent) + 1 = maxBatchSize
         THEN [sent |-> Append(sent, msgs[i]), consumed |-> i]
         ELSE VisScan(msgs, i + 1, Append(sent, msgs[i]), dl)

RECURSIVE VisBatches(_, _)
VisBatches(msgs, dl) ==
    IF msgs = <<>> THEN <<>>
    ELSE LET b == VisScan(msgs, 1, <<>>, dl)
         IN  <<b.sent>> \o VisBatches(SubSeq(msgs, b.consumed + 1, Len(msgs)), dl)

(* The context a call is made with, and the goroutine that makes it: ackLoop's closeNowCtx,
   the ctx of readLoop's deferred function, readLoop's closeAtLeisureCtx, the consumer's
   rctx. *)
closeNowCtx(who) == [who |-> who, ctx |-> "closeNow"]
(* A finaliser that makes its call with readLoop's soft-stop context. *)
ctxSoftStop(who) == [who |-> who, ctx |-> "closeAtLeisure"]
ctx(who) == [who |-> who, ctx |-> "final"]
closeAtLeisureCtx(who) == [who |-> who, ctx |-> "closeAtLeisure"]
rctx(who) == [who |-> who, ctx |-> "rctx"]

(* The context is done: the two hard-stop contexts by the hard stop, ackLoop's also by its
   deferred done() once ackLoop has returned from its last flush; the soft-stop context by
   the soft stop.  A call made with a context that is done does not reach the service. *)
CtxDone(by) ==
    \/ by.ctx = "closeNow" /\ (sig.hard \/ al.pc \in {"clear", "done"})
    \/ by.ctx = "final" /\ sig.hard
    \/ by.ctx = "closeAtLeisure" /\ sig.soft

DeleteCall(by, ids) == [op |-> "DeleteMessageBatch", by |-> by, ids |-> ids, timeout |-> 0]
VisCall(by, ids, timeout) == [op |-> "ChangeMessageVisibilityBatch", by |-> by, ids |-> ids, timeout |-> timeout]
ReceiveCall == [op |-> "ReceiveMessage", by |-> closeAtLeisureCtx("readLoop"), ids |-> <<>>, timeout |-> 0]

(* deleteMessages that ignores the DeleteMessage field. *)
deleteMessagesAlways(by, msgs) ==
    LET bs == DeleteBatches(msgs)
    IN  [i \in DOMAIN bs |-> DeleteCall(by, bs[i])]

deleteMessages(by, msgs) ==
    IF ~conf.DeleteMessage THEN <<>>
    ELSE LET bs == DeleteBatches(msgs)
         IN  [i \in DOMAIN bs |-> DeleteCall(by, bs[i])]

updateVisibilityMessages(by, timeout, msgs, dl) ==
    LET bs == VisBatches(msgs, dl)
    IN  [i \in DOMAIN bs |-> VisCall(by, bs[i], timeout)]

(* resetMessages that ignores the ResetVisibility field. *)
resetMessagesAlways(by, msgs, dl) == updateVisibilityMessages(by, 0, msgs, dl)

resetMessages(by, msgs, dl) ==
    IF ~conf.ResetVisibility THEN <<>>
    ELSE updateVisibilityMessages(by, 0, msgs, dl)

(* flushFinishedHandles that deletes whatever it is given. *)
flushFinishedHandlesErasing(hs, erase, dl) ==
    IF hs = <<>> THEN <<>> ELSE deleteMessages(closeNowCtx("ackLoop"), hs)

flushFinishedHandles(hs, erase, dl) ==
    IF hs = <<>> THEN <<>>
    ELSE IF erase THEN deleteMessages(closeNowCtx("ackLoop"), hs)
    ELSE resetMessages(closeNowCtx("ackLoop"), hs, dl)

(* The number of entries for handle m in the calls cs of one kind. *)
EntriesOf(cs, op, zero, m) ==
    Cardinality(UNION {{<<i, j>> : j \in {k \in DOMAIN cs[i].ids : cs[i].ids[k] = m}} :
                       i \in {n \in DOMAIN cs : cs[n].op = op /\ ((cs[n].timeout = 0) <=> zero)}})

(* The calls of cs that reach the service. *)
Issued(cs) == SelectSeq(cs, LAMBDA c : ~CtxDone(c.by))

(* The log after the calls cs. *)
Logged(l, cs) ==
    LET is == Issued(cs)
    IN  IF is = <<>> THEN l
        ELSE [l EXCEPT
               !.del = [m \in DOMAIN l.del |-> l.del[m] + EntriesOf(is, "DeleteMessageBatch", TRUE, m)],
               !.rst = [m \in DOMAIN l.rst |-> l.rst[m] + EntriesOf(is, "ChangeMessageVisibilityBatch", TRUE, m)],
               !.ext = [m \in DOMAIN l.ext |-> l.ext[m] + EntriesOf(is, "ChangeMessageVisibilityBatch", FALSE, m)],
               !.late = IF cl.pc = "nil" THEN l.late \cup {is[i].by.who : i \in DOMAIN is} ELSE l.late]

----------------------------------------------------------------------------
(* The state after newAWSSQSReader. *)

InitWith(c, e) ==
    /\ conf = c
    /\ env = e
    /\ sig = [soft |-> FALSE, hard |-> FALSE, stopped |-> FALSE]
    /\ more = [loops |-> 0, trackers |-> 0, al |-> <<>>]
    /\ rl = [pc |-> "off", pending |-> <<>>, backoff |-> 0, err |-> FALSE]
    /\ al = [pc |-> "off", pendingAcks |-> <<>>, pendingNacks |-> <<>>]
    /\ rf = [spawned |-> 0, pc |-> "idle", cur |-> <<>>, sent |-> <<>>,
             todo |-> <<>>, at |-> 0, loaded |-> FALSE]
    /\ handles = {}
    /\ deadline = [m \in 1..e.nMsgs |-> 0]
    /\ nextH = 0
    /\ cons = [m \in 1..e.nMsgs |-> "none"]
    /\ cl = [pc |-> "idle", ok |-> FALSE, err |-> "none"]
    /\ now = 0
    /\ tickDue = FALSE
    /\ log = [del |-> [m \in 1..e.nMsgs |-> 0],
              rst |-> [m \in 1..e.nMsgs |-> 0],
              ext |-> [m \in 1..e.nMsgs |-> 0],
              since |-> [m \in 1..e.nMsgs |-> 0],
              adm |-> {},
              cancelled |-> {},
              late |-> {},
              lag |-> FALSE]

----------------------------------------------------------------------------
(* What the queue delivers. *)

HasHandle(m) == env.kind[m] \notin {"nohandle", "neither"}
HasBody(m) == env.kind[m] \notin {"nobody", "neither"}

Held == {m \in Msgs : cons[m] = "held"}

(* The sizes a ReceiveMessage response can have. *)
RecvSizes ==
    LET most == Min(conf.MaxNumberOfMessages, env.nMsgs - nextH)
    IN  IF env.greedy THEN {most} ELSE 0..most

----------------------------------------------------------------------------
(* Connect: the client, a tracker, the two loops. *)

Connect ==
    /\ rl.pc = "off"
    /\ al.pc = "off"
    /\ rl' = [rl EXCEPT !.pc = "loop"]
    /\ al' = [al EXCEPT !.pc = "select"]
    /\ handles' = {}
    /\ UNCHANGED <<conf, env, more, sig, rf, deadline, nextH, cons, cl, now, tickDue, log>>

(* A further Connect on the connected reader: a.sqs is kept, a new tracker is made and two
   more loops and a goroutine that waits for the two are started.  The further readLoop is
   counted only; of the further ackLoop the model keeps its two slices and its ticker. *)
ConnectAgain ==
    /\ al.pc \notin {"off", "dead"}
    /\ more.trackers + 1 < MaxConnects
    /\ more' = [loops |-> more.loops + 2, trackers |-> more.trackers + 1,
                al |-> Append(more.al, [pc |-> "select", pendingAcks |-> <<>>,
                                        pendingNacks |-> <<>>, tickDue |-> FALSE])]
    /\ UNCHANGED <<conf, env, sig, rl, al, rf, handles, deadline, nextH, cons, cl, now, tickDue, log>>

(* flushFinishedHandles of a further ackLoop: its closeNowCtx is done on the hard stop. *)
MoreFlush(hs, erase, dl) ==
    IF hs = <<>> THEN <<>>
    ELSE IF erase THEN deleteMessages(ctx("ackLoop"), hs)
    ELSE resetMessages(ctx("ackLoop"), hs, dl)

(* The ack case of the i-th further ackLoop: it is this loop that takes the handle from
   ackMessagesChan.  Its Remove works on its own tracker, which does not hold the handle. *)
MoreAckLoopAck(i, m) ==
    /\ i \in DOMAIN more.al
    /\ more.al[i].pc = "select"
    /\ cons[m] = "held"
    /\ HasHandle(m)
    /\ LET pendingAcks == Append(more.al[i].pendingAcks, m)
           dl == [deadline EXCEPT ![m] = DELETED]
           cs == IF Len(pendingAcks) >= conf.MaxNumberOfMessages
                 THEN MoreFlush(pendingAcks, TRUE, dl) ELSE <<>>
       IN  /\ more' = [more EXCEPT !.al[i].pendingAcks = pendingAcks]
           /\ deadline' = dl
           /\ log' = Logged(log, cs)
    /\ cons' = [cons EXCEPT ![m] = "ack_chan"]
    /\ UNCHANGED <<conf, env, sig, rl, al, rf, handles, nextH, cl, now, tickDue>>

(* The nack case of the i-th further ackLoop. *)
MoreAckLoopNack(i, m) ==
    /\ i \in DOMAIN more.al
    /\ more.al[i].pc = "select"
    /\ cons[m] = "held"
    /\ HasHandle(m)
    /\ LET pendingNacks == Append(more.al[i].pendingNacks, m)
           dl == [deadline EXCEPT ![m] = DELETED]
           cs == IF Len(pendingNacks) >= conf.MaxNumberOfMessages
                 THEN MoreFlush(pendingNacks, FALSE, dl) ELSE <<>>
       IN  /\ more' = [more EXCEPT !.al[i].pendingNacks = pendingNacks]
           /\ deadline' = dl
           /\ log' = Logged(log, cs)
    /\ cons' = [cons EXCEPT ![m] = "nack_chan"]
    /\ UNCHANGED <<conf, env, sig, rl, al, rf, handles, nextH, cl, now, tickDue>>

(* The tick case of the i-th further ackLoop: the two flushes; the refresh goroutine it
   starts finds its tracker empty and returns. *)
MoreAckLoopTick(i) ==
    /\ i \in DOMAIN more.al
    /\ more.al[i].pc = "select"
    /\ more.al[i].tickDue
    /\ log' = Logged(log, MoreFlush(more.al[i].pendingAcks, TRUE, deadline)
                          \o MoreFlush(more.al[i].pendingNacks, FALSE, deadline))
    /\ more' = [more EXCEPT !.al[i].tickDue = FALSE]
    /\ UNCHANGED <<conf, env, sig, rl, al, rf, handles, deadline, nextH, cons, cl, now, tickDue>>

(* The i-th further ackLoop takes the soft-stop case: the two flushes after the loop, the
   deferred done(), Clear and wg.Done. *)
MoreAckLoopExit(i) ==
    /\ i \in DOMAIN more.al
    /\ more.al[i].pc = "select"
    /\ sig.soft
    /\ log' = Logged(log, MoreFlush(more.al[i].pendingAcks, TRUE, deadline)
                          \o MoreFlush(more.al[i].pendingNacks, FALSE, deadline))
    /\ more' = [more EXCEPT !.al[i].pc = "done", !.al[i].tickDue = FALSE, !.loops = @ - 1]
    /\ UNCHANGED <<conf, env, sig, rl, al, rf, handles, deadline, nextH, cons, cl, now, tickDue>>

(* A further readLoop takes the soft-stop case of a select and returns. *)
MoreLoopExit ==
    /\ more.loops > Cardinality({i \in DOMAIN more.al : more.al[i].pc = "select"})
    /\ sig.soft
    /\ more' = [more EXCEPT !.loops = @ - 1]
    /\ UNCHANGED <<conf, env, sig, rl, al, rf, handles, deadline, nextH, cons, cl, now, tickDue, log>>

(* wg.Wait of a further Connect returns: TriggerHasStopped. *)
MoreHasStopped ==
    /\ more.trackers > 0
    /\ more.loops = 0
    /\ ~sig.stopped
    /\ sig' = [sig EXCEPT !.stopped = TRUE]
    /\ UNCHANGED <<conf, env, more, rl, al, rf, handles, deadline, nextH, cons, cl, now, tickDue, log>>

----------------------------------------------------------------------------
(* readLoop *)

(* backoff.NextBackOff: the interval after the one it returns, MaxInterval at most. *)
NextBackOff(level) == Min(env.maxBackoff, level + 1)

(* A getMsgs that resets the backoff only when messages were received. *)
backoffResetOnMessages(k) == k > 0

(* getMsgs after a response of k messages: backoff.Reset() is called. *)
backoffReset(k) == k > 0 \/ conf.WaitTimeSeconds > 0

(* getMsgs: ReceiveMessage fails (a timeout, an error, a cancelled context); readLoop goes
   to sleep for backoff.NextBackOff(). *)
getMsgsError ==
    /\ rl.pc = "loop"
    /\ rl' = [rl EXCEPT !.pc = "backoff", !.err = TRUE, !.backoff = NextBackOff(rl.backoff)]
    /\ log' = Logged(log, <<ReceiveCall>>)
    /\ UNCHANGED <<conf, env, more, sig, al, rf, handles, deadline, nextH, cons, cl, now, tickDue>>

(* getMsgs: ReceiveMessage answers with k messages. *)
getMsgs(k) ==
    /\ rl.pc = "loop"
    /\ ~sig.soft
    /\ k \in RecvSizes
    /\ k > 0 => ~TrackerLocked
    /\ LET new == [i \in 1..k |-> nextH + i]
       IN  /\ rl' = [rl EXCEPT !.pc = IF k = 0 THEN "backoff" ELSE "addnew",
                               !.pending = rl.pending \o new,
                               !.backoff = IF k > 0 THEN rl.backoff
                                           ELSE NextBackOff(IF backoffReset(k) THEN 0 ELSE rl.backoff)]
           /\ deadline' = [m \in DOMAIN deadline |->
                             IF m \in Range(new) /\ HasHandle(m)
                             THEN now + conf.MessageTimeout ELSE deadline[m]]
    /\ nextH' = nextH + k
    /\ log' = Logged(log, <<ReceiveCall>>)
    /\ UNCHANGED <<conf, env, more, sig, al, rf, handles, cons, cl, now, tickDue>>

(* AddNew has returned to getMsgs, which resets the backoff and returns to the loop. *)
AddNewReturned(r) ==
    [r EXCEPT !.pc = "dispatch",
              !.backoff = IF backoffReset(Len(r.pending)) THEN 0 ELSE r.backoff]

(* sqsInFlightTracker.AddNew, from taking the lock or from being woken. *)
AddNew ==
    /\ rl.pc \in {"addnew", "woken"}
    /\ ~TrackerLocked
    /\ IF AtCapacity(handles)
       THEN /\ rl' = IF sig.soft THEN AddNewReturned(rl) ELSE [rl EXCEPT !.pc = "wait"]
            /\ UNCHANGED handles
            /\ UNCHANGED log
       ELSE /\ handles' = TrackerInsert(handles, SelectSeq(rl.pending, HasHandle))
            /\ rl' = AddNewReturned(rl)
            /\ log' = [log EXCEPT !.since = [m \in DOMAIN log.since |->
                                               IF m \in Range(rl.pending) /\ HasHandle(m)
                                               THEN now ELSE log.since[m]],
                                  !.adm = log.adm \cup {m \in Range(rl.pending) : HasHandle(m)}]
    /\ UNCHANGED <<conf, env, more, sig, al, rf, deadline, nextH, cons, cl, now, tickDue>>

(* readLoop that keeps the message it has handed over at the head of pendingMsgs. *)
pendingKept(pending) == pending

(* pendingMsgs after the send on messagesChan succeeded. *)
pendingAfterSend(pending) == Tail(pending)

(* readLoop that sends the newest pending message first. *)
nextToSendLast(pending) == pending[Len(pending)]

(* The message readLoop offers on messagesChan. *)
nextToSend(pending) == Head(pending)

(* readLoop that calls getMsgs after every send. *)
readLoopSentRefetch ==
    [rl EXCEPT !.pending = pendingAfterSend(rl.pending), !.pc = "loop"]

(* readLoop after its send on messagesChan succeeded. *)
readLoopSent ==
    LET rest == pendingAfterSend(rl.pending)
    IN  [rl EXCEPT !.pending = rest, !.pc = IF rest = <<>> THEN "loop" ELSE "dispatch"]

(* The hand-off: readLoop sends pendingMsgs[0], a Read call receives it and returns the
   message with its ackFn. *)
Read ==
    /\ rl.pc = "dispatch"
    /\ al.pc # "off"
    /\ Cardinality(Held) < env.maxHeld
    /\ LET m == nextToSend(rl.pending)
       IN  /\ HasBody(m)
           /\ HasHandle(m)
           /\ cons' = [cons EXCEPT ![m] = "held"]
    /\ rl' = readLoopSent
    /\ UNCHANGED <<conf, env, more, sig, al, rf, handles, deadline, nextH, cl, now, tickDue, log>>

(* The hand-off of a message without a body: Read returns context.Canceled and drops it. *)
ReadNilBody ==
    /\ rl.pc = "dispatch"
    /\ al.pc # "off"
    /\ Cardinality(Held) < env.maxHeld
    /\ LET m == nextToSend(rl.pending)
       IN  /\ ~HasBody(m)
           /\ cons' = [cons EXCEPT ![m] = "rejected"]
    /\ rl' = readLoopSent
    /\ UNCHANGED <<conf, env, more, sig, al, rf, handles, deadline, nextH, cl, now, tickDue, log>>

(* The hand-off of a message with a body and without an id or a receipt handle:
   addSQSMetadata dereferences the nil pointer, Read panics and the process ends with every
   goroutine where it stands. *)
ReadPanic ==
    /\ rl.pc = "dispatch"
    /\ al.pc # "off"
    /\ Cardinality(Held) < env.maxHeld
    /\ LET m == nextToSend(rl.pending)
       IN  /\ HasBody(m)
           /\ ~HasHandle(m)
           /\ cons' = [x \in DOMAIN cons |->
                         IF x = m THEN "crashed" ELSE IF cons[x] = "held" THEN "lost" ELSE cons[x]]
    /\ rl' = [readLoopSent EXCEPT !.pc = "dead"]
    /\ al' = [al EXCEPT !.pc = "dead"]
    /\ rf' = [rf EXCEPT !.pc = "dead", !.spawned = 0]
    /\ cl' = [cl EXCEPT !.pc = "dead"]
    /\ tickDue' = FALSE
    /\ UNCHANGED <<conf, env, more, sig, handles, deadline, nextH, now, log>>

(* Read before Connect: a.sqs is nil, the call returns ErrNotConnected. *)
ReadNotConnected ==
    /\ al.pc = "off"
    /\ UNCHANGED vars

(* Read takes the soft-stop case of its select and returns ErrEndOfInput. *)
ReadEndOfInput ==
    /\ al.pc \notin {"off", "dead"}
    /\ sig.soft
    /\ UNCHANGED vars

(* The log after a call of the consumer has returned the error of its context, in the runs
   that observe such returns. *)
Cancelled(l, call) == [l EXCEPT !.cancelled = @ \cup ({call} \cap env.observed)]

(* A Read whose cancelled ctx stops the reader. *)
ReadCtxDoneStops ==
    /\ al.pc \notin {"off", "dead"}
    /\ log' = Cancelled(log, "Read")
    /\ sig' = [sig EXCEPT !.soft = TRUE]
    /\ UNCHANGED <<conf, env, more, rl, al, rf, handles, deadline, nextH, cons, cl, now, tickDue>>

(* Read takes the ctx.Done() case of its select and returns ctx.Err(). *)
ReadCtxDone ==
    /\ al.pc \notin {"off", "dead"}
    /\ log' = Cancelled(log, "Read")
    /\ UNCHANGED <<conf, env, more, sig, rl, al, rf, handles, deadline, nextH, cons, cl, now, tickDue>>

(* The backoff sleep ends. *)
backoffElapsed ==
    /\ rl.pc = "backoff"
    /\ rl' = [rl EXCEPT !.pc = "loop", !.err = FALSE]
    /\ UNCHANGED <<conf, env, more, sig, al, rf, handles, deadline, nextH, cons, cl, now, tickDue, log>>

(* readLoop that forgets its pending messages when it takes the soft-stop case. *)
readLoopSoftStopDropping ==
    /\ rl.pc \in {"dispatch", "backoff"}
    /\ sig.soft
    /\ rl' = [rl EXCEPT !.pc = "final", !.err = FALSE, !.pending = <<>>]
    /\ UNCHANGED <<conf, env, more, sig, al, rf, handles, deadline, nextH, cons, cl, now, tickDue, log>>

(* Either select of the loop takes the soft-stop case. *)
readLoopSoftStop ==
    /\ rl.pc \in {"dispatch", "backoff"}
    /\ sig.soft
    /\ rl' = [rl EXCEPT !.pc = "final", !.err = FALSE]
    /\ UNCHANGED <<conf, env, more, sig, al, rf, handles, deadline, nextH, cons, cl, now, tickDue, log>>

(* The deferred finaliser, then wg.Done. *)
readLoopFinal ==
    /\ rl.pc = "final"
    /\ LET tmpNacks == SelectSeq(rl.pending, HasHandle)
           cs == IF rl.pending = <<>> THEN <<>>
                 ELSE resetMessages(ctx("readLoop"), tmpNacks, deadline)
       IN  log' = Logged(log, cs)
    /\ rl' = [rl EXCEPT !.pc = "done"]
    /\ UNCHANGED <<conf, env, more, sig, al, rf, handles, deadline, nextH, cons, cl, now, tickDue>>

(* A wait group that is released by the first loop to exit. *)
WaitGroupDoneFirst == rl.pc = "done" \/ al.pc = "done"

(* A wait group that counts ackLoop only. *)
WaitGroupDoneAckLoop == al.pc = "done"

(* wg.Wait returns: both loops have called wg.Done. *)
WaitGroupDone == rl.pc = "done" /\ al.pc = "done"

TriggerHasStopped ==
    /\ WaitGroupDone
    /\ ~sig.stopped
    /\ sig' = [sig EXCEPT !.stopped = TRUE]
    /\ UNCHANGED <<conf, env, more, rl, al, rf, handles, deadline, nextH, cons, cl, now, tickDue, log>>

----------------------------------------------------------------------------
(* ackLoop *)

(* ackFn(rctx, nil) sends the handle on ackMessagesChan and the loop takes it. *)
ackLoopAck(m) ==
    /\ al.pc = "select"
    /\ ~TrackerLocked
    /\ cons[m] = "held"
    /\ HasHandle(m)
    /\ LET pendingAcks == Append(al.pendingAcks, m)
           dl == [deadline EXCEPT ![m] = DELETED]
           cs == IF Len(pendingAcks) >= conf.MaxNumberOfMessages
                 THEN flushFinishedHandles(pendingAcks, TRUE, dl) ELSE <<>>
       IN  /\ al' = [al EXCEPT !.pendingAcks = pendingAcks]
           /\ deadline' = dl
           /\ log' = Logged(log, cs)
    /\ handles' = TrackerRemove(handles, IdOf(m))
    /\ rl' = Signal(rl)
    /\ cons' = [cons EXCEPT ![m] = "ack_chan"]
    /\ UNCHANGED <<conf, env, more, sig, rf, nextH, cl, now, tickDue>>

(* ackFn(rctx, err) sends the handle on nackMessagesChan and the loop takes it. *)
ackLoopNack(m) ==
    /\ al.pc = "select"
    /\ ~TrackerLocked
    /\ cons[m] = "held"
    /\ HasHandle(m)
    /\ LET pendingNacks == Append(al.pendingNacks, m)
           dl == [deadline EXCEPT ![m] = DELETED]
           cs == IF Len(pendingNacks) >= conf.MaxNumberOfMessages
                 THEN flushFinishedHandles(pendingNacks, FALSE, dl) ELSE <<>>
       IN  /\ al' = [al EXCEPT !.pendingNacks = pendingNacks]
           /\ deadline' = dl
           /\ log' = Logged(log, cs)
    /\ handles' = TrackerRemove(handles, IdOf(m))
    /\ rl' = Signal(rl)
    /\ cons' = [cons EXCEPT ![m] = "nack_chan"]
    /\ UNCHANGED <<conf, env, more, sig, rf, nextH, cl, now, tickDue>>

(* flushTimer.C: flush both slices, start a refresh goroutine. *)
ackLoopTick ==
    /\ al.pc = "select"
    /\ ~TrackerLocked
    /\ tickDue
    /\ rf.spawned < MaxSpawned
    /\ LET cs == flushFinishedHandles(al.pendingAcks, TRUE, deadline)
                 \o flushFinishedHandles(al.pendingNacks, FALSE, deadline)
       IN  log' = Logged(log, cs)
    /\ rf' = [rf EXCEPT !.spawned = rf.spawned + 1]
    /\ tickDue' = FALSE
    /\ UNCHANGED <<conf, env, more, sig, rl, al, handles, deadline, nextH, cons, cl, now>>

(* The soft-stop case: break ackLoop. *)
ackLoopSoftStop ==
    /\ al.pc = "select"
    /\ sig.soft
    /\ al' = [al EXCEPT !.pc = "drain"]
    /\ UNCHANGED <<conf, env, more, sig, rl, rf, handles, deadline, nextH, cons, cl, now, tickDue, log>>

(* The two flushes after the loop, then the deferred done(). *)
ackLoopDrain ==
    /\ al.pc = "drain"
    /\ LET cs == flushFinishedHandles(al.pendingAcks, TRUE, deadline)
                 \o flushFinishedHandles(al.pendingNacks, FALSE, deadline)
       IN  log' = Logged(log, cs)
    /\ al' = [al EXCEPT !.pc = "clear"]
    /\ UNCHANGED <<conf, env, more, sig, rl, rf, handles, deadline, nextH, cons, cl, now, tickDue>>

(* The deferred inFlightTracker.Clear, then wg.Done. *)
Clear ==
    /\ al.pc = "clear"
    /\ ~TrackerLocked
    /\ handles' = {}
    /\ rl' = Signal(rl)
    /\ al' = [al EXCEPT !.pc = "done"]
    /\ UNCHANGED <<conf, env, more, sig, rf, deadline, nextH, cons, cl, now, tickDue, log>>

----------------------------------------------------------------------------
(* refreshCurrentHandles, run by the goroutines the ticks start. *)

(* A refreshLock that every goroutine acquires. *)
TryLockAlways(r) == TRUE

(* refreshLock.TryLock: the lock is held from PullToRefresh to the last call of the pass. *)
TryLock(r) == r.pc = "idle"

(* TryLock fails: a pass is in flight. *)
refreshSkipped ==
    /\ rf.spawned > 0
    /\ ~TryLock(rf)
    /\ rf' = [rf EXCEPT !.spawned = rf.spawned - 1]
    /\ UNCHANGED <<conf, env, more, sig, rl, al, handles, deadline, nextH, cons, cl, now, tickDue, log>>

(* The next batch of updateVisibilityMessages over msgs: its entries, and what is left. *)
Scanned(r, msgs, dl) ==
    LET b == VisScan(msgs, 1, <<>>, dl)
    IN  [r EXCEPT !.pc = "send", !.sent = b.sent,
                  !.cur = SubSeq(msgs, b.consumed + 1, Len(msgs))]

(* TryLock succeeds: PullToRefresh, and updateVisibilityMessages builds its first batch. *)
PullToRefresh ==
    /\ rf.spawned > 0
    /\ TryLock(rf)
    /\ LET sel == PullSelected(handles, deadline, now)
           dl == [m \in DOMAIN deadline |->
                    IF m \in sel THEN now + conf.MessageTimeout ELSE deadline[m]]
           r == [rf EXCEPT !.spawned = rf.spawned - 1]
       IN  /\ deadline' = dl
           /\ rf' = IF sel = {} THEN r ELSE Scanned(r, SeqOfSet(sel), dl)
    /\ UNCHANGED <<conf, env, more, sig, rl, al, handles, nextH, cons, cl, now, tickDue, log>>

(* PullToRefresh step by step, as a further ackLoop can see it: that loop marks handles
   DELETED without taking the lock of this tracker.  TryLock succeeds, the tracker is locked
   and time.Now() is read. *)
PullBegin ==
    /\ rf.spawned > 0
    /\ TryLock(rf)
    /\ more.trackers > 0
    /\ rf' = [rf EXCEPT !.spawned = rf.spawned - 1, !.pc = "pull", !.cur = <<>>,
                        !.todo = SeqOfSet(handles), !.at = now]
    /\ UNCHANGED <<conf, env, more, sig, rl, al, handles, deadline, nextH, cons, cl, now, tickDue, log>>

(* v.deadline.Load() of the next handle and the comparison with half the timeout. *)
PullLoad ==
    /\ rf.pc = "pull"
    /\ ~rf.loaded
    /\ rf.todo # <<>>
    /\ rf' = IF PullSkips(deadline[Head(rf.todo)], rf.at) THEN [rf EXCEPT !.todo = Tail(@)]
             ELSE [rf EXCEPT !.loaded = TRUE]
    /\ UNCHANGED <<conf, env, more, sig, rl, al, handles, deadline, nextH, cons, cl, now, tickDue, log>>

(* handles = append(handles, v); v.deadline.Store(now.Add(t.timeout)) *)
PullStore ==
    /\ rf.pc = "pull"
    /\ rf.loaded
    /\ deadline' = [deadline EXCEPT ![Head(rf.todo)] = rf.at + conf.MessageTimeout]
    /\ rf' = [rf EXCEPT !.todo = Tail(@), !.loaded = FALSE, !.cur = Append(@, Head(rf.todo))]
    /\ UNCHANGED <<conf, env, more, sig, rl, al, handles, nextH, cons, cl, now, tickDue, log>>

(* PullToRefresh returns and unlocks; updateVisibilityMessages builds its first batch. *)
PullEnd ==
    /\ rf.pc = "pull"
    /\ ~rf.loaded
    /\ rf.todo = <<>>
    /\ rf' = IF rf.cur = <<>> THEN [rf EXCEPT !.pc = "idle"] ELSE Scanned(rf, rf.cur, deadline)
    /\ UNCHANGED <<conf, env, more, sig, rl, al, handles, deadline, nextH, cons, cl, now, tickDue, log>>

(* updateVisibilityMessages sends the batch, and builds the next one if handles are left. *)
refreshSend ==
    /\ rf.pc = "send"
    /\ log' = Logged(log, <<VisCall(closeNowCtx("refresh"), rf.sent, conf.MessageTimeout)>>)
    /\ rf' = IF rf.cur = <<>> THEN [rf EXCEPT !.pc = "idle", !.sent = <<>>]
             ELSE Scanned(rf, rf.cur, deadline)
    /\ UNCHANGED <<conf, env, more, sig, rl, al, handles, deadline, nextH, cons, cl, now, tickDue>>

----------------------------------------------------------------------------
(* The ackFn closure, when it is not the channel that takes the handle. *)

(* ackFn with its two soft-stop cases exchanged. *)
ackFnDirectSwapped(m, ok) ==
    IF ok THEN resetMessages(rctx("ackFn"), <<m>>, deadline)
    ELSE deleteMessages(rctx("ackFn"), <<m>>)

(* ackFn making its calls with a hard-stop context. *)
ackFnDirectHardStopCtx(m, ok) ==
    IF ok THEN deleteMessages(ctx("ackFn"), <<m>>)
    ELSE resetMessages(ctx("ackFn"), <<m>>, deadline)

(* The calls of the soft-stop cases of ackFn(rctx, res), ok standing for res == nil. *)
ackFnDirect(m, ok) ==
    IF ok THEN deleteMessages(rctx("ackFn"), <<m>>)
    ELSE resetMessages(rctx("ackFn"), <<m>>, deadline)

(* The soft-stop case: a single-message delete or reset. *)
ackFnSoftStop(m, ok) ==
    /\ sig.soft
    /\ cons[m] = "held"
    /\ HasHandle(m)
    /\ log' = Logged(log, ackFnDirect(m, ok))
    /\ cons' = [cons EXCEPT ![m] = IF ok THEN "ack_direct" ELSE "nack_direct"]
    /\ UNCHANGED <<conf, env, more, sig, rl, al, rf, handles, deadline, nextH, cl, now, tickDue>>

(* rctx is done: the call returns its error and nothing else happens; the consumer still
   holds the message. *)
ackFnCtxDone(m) ==
    /\ cons[m] = "held"
    /\ HasHandle(m)
    /\ log' = Cancelled(log, "ackFn")
    /\ UNCHANGED <<conf, env, more, sig, rl, al, rf, handles, deadline, nextH, cons, cl, now, tickDue>>

(* mHandle == nil: the call returns nil.  No run takes this step: a Read that is handed a
   message without a handle does not return (ReadNilBody, ReadPanic). *)
ackFnNoHandle(m) ==
    /\ cons[m] = "held"
    /\ ~HasHandle(m)
    /\ cons' = [cons EXCEPT ![m] = "noop"]
    /\ UNCHANGED <<conf, env, more, sig, rl, al, rf, handles, deadline, nextH, cl, now, tickDue, log>>

----------------------------------------------------------------------------
(* Close(ctx): ctx has no deadline, one more than a second away, or a nearer one. *)

(* Close that never stops hard on entry. *)
HardOnEntryNever(dline) == FALSE

(* closeNowAt <= 0: the deadline is at most a second away. *)
HardOnEntry(dline) == dline = "near"

(* Close from its first statement to the select it blocks in. *)
CloseEntered(dline) ==
    /\ sig' = [sig EXCEPT !.soft = TRUE, !.hard = sig.hard \/ HardOnEntry(dline)]
    /\ cl' = [pc |-> IF dline = "far" THEN "wait1" ELSE "wait2", ok |-> dline # "none", err |-> "none"]
    /\ UNCHANGED <<conf, env, more, rl, al, rf, handles, deadline, nextH, cons, now, tickDue, log>>

Close(dline) ==
    /\ cl.pc = "idle"
    /\ CloseEntered(dline)

(* A further Close, after one has returned. *)
CloseAgain(dline) ==
    /\ cl.pc \in {"nil", "err"}
    /\ CloseEntered(dline)

(* time.After(closeNowAt) *)
CloseHardStop ==
    /\ cl.pc = "wait1"
    /\ sig' = [sig EXCEPT !.hard = TRUE]
    /\ cl' = [cl EXCEPT !.pc = "wait2"]
    /\ UNCHANGED <<conf, env, more, rl, al, rf, handles, deadline, nextH, cons, now, tickDue, log>>

(* ctx.Done(): the caller has cancelled ctx. *)
CloseCtxDone ==
    /\ cl.pc \in {"wait1", "wait2"}
    /\ cl' = [cl EXCEPT !.pc = "err", !.err = "Canceled"]
    /\ UNCHANGED <<conf, env, more, sig, rl, al, rf, handles, deadline, nextH, cons, now, tickDue, log>>

(* ctx.Done(): the deadline of ctx has passed.  The timer of the first select is due a second
   before the deadline, so it is in the second select that Close meets the deadline. *)
CloseDeadlineExceeded ==
    /\ cl.pc = "wait2"
    /\ cl.ok
    /\ cl' = [cl EXCEPT !.pc = "err", !.err = "DeadlineExceeded"]
    /\ UNCHANGED <<conf, env, more, sig, rl, al, rf, handles, deadline, nextH, cons, now, tickDue, log>>

(* HasStoppedChan() *)
CloseStopped ==
    /\ cl.pc \in {"wait1", "wait2"}
    /\ sig.stopped
    /\ cl' = [cl EXCEPT !.pc = "nil"]
    /\ UNCHANGED <<conf, env, more, sig, rl, al, rf, handles, deadline, nextH, cons, now, tickDue, log>>

----------------------------------------------------------------------------
(* A second passes; flushTimer fires, in every ackLoop. *)

Second ==
    /\ now < env.maxTime
    /\ now' = now + 1
    /\ tickDue' = TRUE
    /\ more' = [more EXCEPT !.al = [i \in DOMAIN more.al |->
                                      [more.al[i] EXCEPT !.tickDue = (more.al[i].pc = "select")]]]
    /\ log' = [log EXCEPT !.lag = log.lag \/ tickDue \/ rf.spawned > 0 \/ rf.pc # "idle"]
    /\ UNCHANGED <<conf, env, sig, rl, al, rf, handles, deadline, nextH, cons, cl>>

----------------------------------------------------------------------------

Next ==
    \/ Connect
    \/ getMsgsError
    \/ \E k \in 0..conf.MaxNumberOfMessages : getMsgs(k)
    \/ AddNew
    \/ Read
    \/ ReadNotConnected
    \/ ReadEndOfInput
    \/ ReadCtxDone
    \/ backoffElapsed
    \/ readLoopSoftStop
    \/ readLoopFinal
    \/ TriggerHasStopped
    \/ \E m \in Msgs : ackLoopAck(m)
    \/ \E m \in Msgs : ackLoopNack(m)
    \/ ackLoopTick
    \/ ackLoopSoftStop
    \/ ackLoopDrain
    \/ Clear
    \/ refreshSkipped
    \/ PullToRefresh
    \/ refreshSend
    \/ \E m \in Msgs, ok \in BOOLEAN : ackFnSoftStop(m, ok)
    \/ \E m \in Msgs : ackFnCtxDone(m)
    \/ \E dline \in {"none", "far", "near"} : Close(dline)
    \/ CloseHardStop
    \/ CloseCtxDone
    \/ CloseDeadlineExceeded
    \/ CloseStopped
    \/ Second

----------------------------------------------------------------------------
(* The configurations and the environments of the runs. *)

(* What the queue holds and how the consumer behaves: n messages, the last of them of a kind
   in K (complete, without a body, without an id or a receipt handle, with neither); the
   clock runs t seconds; the consumer works on at most h messages at a time; a greedy queue
   always answers with as many messages as it may. *)
EnvsOfKinds(n, t, h, greedy, K) ==
    {[nMsgs |-> n, maxTime |-> t, maxHeld |-> h, greedy |-> greedy, maxBackoff |-> 0, observed |-> {},
      id |-> [m \in 1..n |-> m],
      kind |-> [m \in 1..n |-> IF m = n THEN k ELSE "ok"]] : k \in K}

(* A queue of complete messages. *)
Envs(n, t, h, greedy) == EnvsOfKinds(n, t, h, greedy, {"ok"})

Conf0 ==
    [MaxOutstanding |-> 1, MaxNumberOfMessages |-> 2, MessageTimeout |-> 2,
     WaitTimeSeconds |-> 0, DeleteMessage |-> TRUE, ResetVisibility |-> TRUE]

Init == \E e \in Envs(NumMsgs, MaxTime, MaxHeld, FALSE) : InitWith(Conf0, e)

Spec == Init /\ [][Next]_vars

(* The steps of the runs that end before flushTimer first fires: every action but the clock's
   and those a tick starts, which are then never enabled. *)
NextFirstSecond ==
    \/ Connect
    \/ getMsgsError
    \/ \E k \in 0..conf.MaxNumberOfMessages : getMsgs(k)
    \/ AddNew
    \/ Read
    \/ ReadNotConnected
    \/ ReadEndOfInput
    \/ ReadCtxDone
    \/ backoffElapsed
    \/ readLoopSoftStop
    \/ readLoopFinal
    \/ TriggerHasStopped
    \/ \E m \in Msgs : ackLoopAck(m)
    \/ \E m \in Msgs : ackLoopNack(m)
    \/ ackLoopSoftStop
    \/ ackLoopDrain
    \/ Clear
    \/ \E m \in Msgs, ok \in BOOLEAN : ackFnSoftStop(m, ok)
    \/ \E m \in Msgs : ackFnCtxDone(m)
    \/ \E dline \in {"none", "far", "near"} : Close(dline)
    \/ CloseHardStop
    \/ CloseCtxDone
    \/ CloseDeadlineExceeded
    \/ CloseStopped

(* More messages on the queue than the tracker may ever hold. *)
InitOcc ==
    \E e \in Envs(Conf0.MaxOutstanding + Conf0.MaxNumberOfMessages + 1, 0, MaxHeld, FALSE) :
        InitWith(Conf0, e)

SpecOcc == InitOcc /\ [][NextFirstSecond]_vars

(* The slow consumer: a limit of two, batches of five, one message processed at a time. *)
ConfSlow == [Conf0 EXCEPT !.MaxOutstanding = 2, !.MaxNumberOfMessages = 5]

InitSlow ==
    \E e \in Envs(ConfSlow.MaxNumberOfMessages + 1, 0, MaxHeld, TRUE) : InitWith(ConfSlow, e)

SpecSlow == InitSlow /\ [][NextFirstSecond]_vars

(* A visibility timeout of one second: a handle's lease is half used up by the first tick. *)
ConfRefresh == [Conf0 EXCEPT !.MessageTimeout = 1]

InitRefresh == \E e \in Envs(NumMsgs, MaxTime, MaxHeld, FALSE) : InitWith(ConfRefresh, e)

SpecRefresh == InitRefresh /\ [][Next]_vars

(* The scheduler runs every goroutine that can take a step, a ReceiveMessage call returns,
   a sleep ends, and a select whose soft-stop case is ready again and again takes it in the
   end (Go picks among the ready cases at random).  The consumer and the context of Close
   owe nothing. *)
Fairness ==
    /\ WF_vars(getMsgsError \/ \E k \in 0..conf.MaxNumberOfMessages : getMsgs(k))
    /\ WF_vars(AddNew)
    /\ WF_vars(backoffElapsed)
    /\ SF_vars(readLoopSoftStop)
    /\ WF_vars(readLoopFinal)
    /\ WF_vars(TriggerHasStopped)
    /\ WF_vars(ackLoopSoftStop)
    /\ WF_vars(ackLoopDrain)
    /\ WF_vars(Clear)
    /\ WF_vars(CloseStopped)

(* Nacks that are not to reset the visibility timeout; acks that are not to delete. *)
ConfNoReset == [Conf0 EXCEPT !.ResetVisibility = FALSE]

InitNoReset == \E e \in Envs(NumMsgs, MaxTime, MaxHeld, FALSE) : InitWith(ConfNoReset, e)

SpecNoReset == InitNoReset /\ [][Next]_vars

ConfNoDelete == [Conf0 EXCEPT !.DeleteMessage = FALSE]

InitNoDelete == \E e \in Envs(NumMsgs, MaxTime, MaxHeld, FALSE) : InitWith(ConfNoDelete, e)

SpecNoDelete == InitNoDelete /\ [][Next]_vars

(* A queue that delivers its first message a second time, as its last: the same id with a
   new receipt handle.  A limit of two, batches of one. *)
EnvsRedelivered(n, t, h, greedy) ==
    {[e EXCEPT !.id = [m \in 1..n |-> IF m = n THEN 1 ELSE m]] : e \in Envs(n, t, h, greedy)}

ConfRedeliver == [Conf0 EXCEPT !.MaxOutstanding = 2, !.MaxNumberOfMessages = 1]

InitRedeliver ==
    \E e \in EnvsRedelivered(NumMsgs + 1, 0, MaxHeld, FALSE) : InitWith(ConfRedeliver, e)

SpecRedeliver == InitRedeliver /\ [][NextFirstSecond]_vars

(* The batching functions on inputs of every length up to MaxFlush: ackLoop has taken a
   acks and b nacks, in order or with neighbours swapped (the consumer works on two
   messages at a time), the consumer holds h messages and readLoop the rest of the last
   response; then the flush timer fires once, a refresh pass runs and the reader is closed. *)
ConfBatch == [Conf0 EXCEPT !.MaxOutstanding = MaxFlush + 1, !.MaxNumberOfMessages = maxBatchSize]

(* The handles lo..hi in the order they arrived on a channel of ackLoop. *)
Arrival(lo, hi, swapped) ==
    [i \in 1..(hi - lo + 1) |->
        IF ~swapped THEN lo + i - 1
        ELSE IF i % 2 = 1 THEN (IF lo + i <= hi THEN lo + i ELSE lo + i - 1)
        ELSE lo + i - 2]

InitBatch ==
    \E e \in Envs(MaxFlush, 1, MaxHeld, TRUE), a \in 0..MaxFlush, b \in 0..MaxFlush,
       h \in 0..MaxHeld, swapped \in BOOLEAN :
        LET settled == a + b
            pending == [i \in 1..(MaxFlush - settled - h) |-> settled + h + i]
        IN  /\ settled + h <= MaxFlush
            /\ MaxFlush - settled - h <= ConfBatch.MaxNumberOfMessages
            /\ conf = ConfBatch
            /\ env = e
            /\ sig = [soft |-> FALSE, hard |-> FALSE, stopped |-> FALSE]
            /\ more = [loops |-> 0, trackers |-> 0, al |-> <<>>]
            /\ rl = [pc |-> IF pending = <<>> THEN "loop" ELSE "dispatch", pending |-> pending,
                     backoff |-> 0, err |-> FALSE]
            /\ al = [pc |-> "select", pendingAcks |-> Arrival(1, a, swapped),
                     pendingNacks |-> Arrival(a + 1, settled, swapped)]
            /\ rf = [spawned |-> 0, pc |-> "idle", cur |-> <<>>, sent |-> <<>>,
             todo |-> <<>>, at |-> 0, loaded |-> FALSE]
            /\ handles = (settled + 1)..MaxFlush
            /\ deadline = [m \in 1..MaxFlush |->
                              IF m <= settled THEN DELETED ELSE ConfBatch.MessageTimeout]
            /\ nextH = MaxFlush
            /\ cons = [m \in 1..MaxFlush |->
                          IF m <= a THEN "ack_chan"
                          ELSE IF m <= settled THEN "nack_chan"
                          ELSE IF m <= settled + h THEN "held" ELSE "none"]
            /\ cl = [pc |-> "idle", ok |-> FALSE, err |-> "none"]
            /\ now = 0
            /\ tickDue = FALSE
            /\ log = [del |-> [m \in 1..MaxFlush |-> 0],
                      rst |-> [m \in 1..MaxFlush |-> 0],
                      ext |-> [m \in 1..MaxFlush |-> 0],
                      since |-> [m \in 1..MaxFlush |-> 0],
                      adm |-> 1..MaxFlush,
                      cancelled |-> {},
                      late |-> {},
                      lag |-> FALSE]

NextBatch ==
    \/ \E m \in Msgs : ackLoopAck(m)
    \/ \E m \in Msgs : ackLoopNack(m)
    \/ Second
    \/ ackLoopTick
    \/ PullToRefresh
    \/ refreshSend
    \/ \E dline \in {"none"} : Close(dline)
    \/ ackLoopSoftStop
    \/ ackLoopDrain
    \/ Clear
    \/ readLoopSoftStop
    \/ readLoopFinal

SpecBatch == InitBatch /\ [][NextBatch]_vars

(* The backoff of readLoop, with long polling off and on. *)
ConfLongPoll == [Conf0 EXCEPT !.WaitTimeSeconds = 1]

InitBackoff ==
    \E c \in {Conf0, ConfLongPoll}, e \in Envs(NumMsgs, 0, MaxHeld, FALSE) :
        InitWith(c, [e EXCEPT !.maxBackoff = MaxBackoff])

SpecBackoff == InitBackoff /\ [][NextFirstSecond]_vars

(* Runs in which the consumer cancels the contexts of its calls, and the log records it. *)
InitCancel ==
    \E e \in Envs(NumMsgs, 0, MaxHeld, FALSE) :
        InitWith(Conf0, [e EXCEPT !.observed = {"Read", "ackFn"}])

SpecCancel == InitCancel /\ [][NextFirstSecond]_vars

(* Connect called again on the connected reader. *)
NextConnect ==
    \/ NextFirstSecond
    \/ ConnectAgain
    \/ \E i \in 1..MaxConnects, m \in Msgs : MoreAckLoopAck(i, m)
    \/ \E i \in 1..MaxConnects, m \in Msgs : MoreAckLoopNack(i, m)
    \/ \E i \in 1..MaxConnects : MoreAckLoopExit(i)
    \/ MoreLoopExit
    \/ MoreHasStopped

InitConnect == \E e \in Envs(NumMsgs, 0, MaxHeld, FALSE) : InitWith(Conf0, e)

SpecConnect == InitConnect /\ [][NextConnect]_vars

(* Connect called again on a reader whose flushTimer fires and whose refresh passes run. *)
NextTwoTrackers ==
    \/ Next
    \/ ConnectAgain
    \/ \E i \in 1..MaxConnects, m \in Msgs : MoreAckLoopAck(i, m)
    \/ \E i \in 1..MaxConnects, m \in Msgs : MoreAckLoopNack(i, m)
    \/ \E i \in 1..MaxConnects : MoreAckLoopTick(i)
    \/ \E i \in 1..MaxConnects : MoreAckLoopExit(i)
    \/ MoreLoopExit
    \/ MoreHasStopped
    \/ PullBegin
    \/ PullLoad
    \/ PullStore
    \/ PullEnd

InitTwoTrackers == \E e \in Envs(NumMsgs - 1, MaxTime, MaxHeld, FALSE) : InitWith(Conf0, e)

SpecTwoTrackers == InitTwoTrackers /\ [][NextTwoTrackers]_vars

(* A queue whose last message may be malformed. *)
NextMalformed ==
    \/ NextFirstSecond
    \/ ReadNilBody
    \/ ReadPanic

InitMalformed ==
    \E e \in EnvsOfKinds(NumMsgs + 1, 0, MaxHeld, FALSE, {"ok", "nobody", "nohandle", "neither"}) :
        InitWith(Conf0, e)

SpecMalformed == InitMalformed /\ [][NextMalformed]_vars

(* The caller closes the reader more than once. *)
NextClose ==
    \/ NextFirstSecond
    \/ \E dline \in {"none", "far", "near"} : CloseAgain(dline)

InitClose == \E e \in Envs(NumMsgs, 0, MaxHeld, FALSE) : InitWith(Conf0, e)

SpecClose == InitClose /\ [][NextClose]_vars

InitFair == \E e \in Envs(NumMsgs, 0, MaxHeld, FALSE) : InitWith(Conf0, e)

FairSpec == InitFair /\ [][NextFirstSecond]_vars /\ Fairness

(* The timer of Close's first select fires and the deadline of its ctx passes. *)
CloseTimers ==
    /\ WF_vars(CloseHardStop)
    /\ WF_vars(CloseDeadlineExceeded)

FairSpecClose == InitFair /\ [][NextFirstSecond]_vars /\ Fairness /\ CloseTimers

(* The consumer settles message m: its ackFn hands the handle to ackLoop or, after the
   soft stop, makes the call itself. *)
ConsumerSettles(m) ==
    \/ ackLoopAck(m)
    \/ ackLoopNack(m)
    \/ \E ok \in BOOLEAN : ackFnSoftStop(m, ok)

(* A consumer that calls Read whenever it has a hand free and calls the ackFn of every
   message it was given. *)
ConsumerFairness ==
    /\ WF_vars(Read \/ ReadNilBody)
    /\ \A m \in 1..(NumMsgs + 1) : WF_vars(ConsumerSettles(m))

(* A queue one of whose messages may lack its body, read by that consumer. *)
NextNilBody ==
    \/ NextFirstSecond
    \/ ReadNilBody

InitNilBody ==
    \E e \in Envs(NumMsgs + 1, 0, MaxHeld, FALSE), i \in 0..(NumMsgs + 1) :
        InitWith(Conf0, [e EXCEPT !.kind = [m \in 1..(NumMsgs + 1) |->
                                              IF m = i THEN "nobody" ELSE "ok"]])

FairSpecNilBody == InitNilBody /\ [][NextNilBody]_vars /\ Fairness /\ ConsumerFairness

----------------------------------------------------------------------------
(* What the consumer did with a message, and what the service was sent for it. *)

Acked == {m \in Msgs : cons[m] \in {"ack_chan", "ack_direct"}}
Nacked == {m \in Msgs : cons[m] \in {"nack_chan", "nack_direct"}}
LoopsExited == rl.pc = "done" /\ al.pc = "done"

----------------------------------------------------------------------------
(* C1. Bounded occupancy: in every reachable state the tracker holds at most
   MaxOutstanding + MaxNumberOfMessages handles. *)
BoundedOccupancy ==
    Cardinality(handles) <= conf.MaxOutstanding + conf.MaxNumberOfMessages

(* A batch has pushed the tracker above the limit and the next one waits in AddNew. *)
OccupancyAboveLimit ==
    /\ Cardinality(handles) > conf.MaxOutstanding
    /\ rl.pc = "wait"

(* C2. At-least-once exclusivity: no message has both a DeleteMessageBatch entry and a
   ChangeMessageVisibilityBatch entry with timeout 0, the shutdown paths included. *)
DeleteResetExclusive ==
    \A m \in Msgs : ~(log.del[m] > 0 /\ log.rst[m] > 0)

(* Both loops have exited, one message was deleted and another reset. *)
DeletedAndResetAtExit ==
    /\ LoopsExited
    /\ \E m1, m2 \in Msgs : log.del[m1] > 0 /\ log.rst[m2] > 0

(* C3. Delete exactly once: a handle the consumer acks is in exactly one DeleteMessageBatch
   entry over the run: never in a second one, and in one when the ack loop has exited. *)
DeletedExactlyOnce ==
    \A m \in Msgs :
        /\ log.del[m] <= 1
        /\ (cons[m] = "ack_chan" /\ al.pc = "done") => log.del[m] = 1

(* C4. Nack with reset on: a handle nacked through the nack channel is never in a
   DeleteMessageBatch entry, and is in a ChangeMessageVisibilityBatch entry with timeout 0
   by the time the ack loop has exited (nothing is sent for it afterwards). *)
NackedIsReset ==
    \A m \in Msgs :
        cons[m] = "nack_chan" =>
            /\ log.del[m] = 0
            /\ al.pc = "done" => log.rst[m] > 0

(* C5. Ack routing: an acked message has no ChangeMessageVisibilityBatch entry with timeout
   0 and a nacked message has no DeleteMessageBatch entry, by the channel and by the
   soft-stop path. *)
AckRouting ==
    /\ \A m \in Acked : log.rst[m] = 0
    /\ \A m \in Nacked : log.del[m] = 0

(* One message acked and deleted, another nacked and reset, one of them by the channel and
   one by the soft-stop path. *)
AckedDeletedNackedReset ==
    \E m1, m2 \in Msgs :
        /\ cons[m1] = "ack_chan" /\ log.del[m1] > 0
        /\ cons[m2] = "nack_direct" /\ log.rst[m2] > 0

(* C6, as stated. Shutdown drain: once Close has returned nil nobody issues a ReceiveMessage,
   DeleteMessageBatch or ChangeMessageVisibilityBatch call: not a refresh pass, not an
   ackFn. *)
NoCallAfterClose == log.late = {}

(* C6, amended. Once Close has returned nil, neither loop issues a call: the calls that
   still happen are those of an ackFn the consumer invokes afterwards and of a refresh pass
   that was in flight. *)
NoLoopCallAfterClose == log.late \subseteq {"ackFn", "refresh"}

(* Close has returned nil and an ackFn invoked afterwards has made its call. *)
AckFnCallAfterClose == cl.pc = "nil" /\ "ackFn" \in log.late

(* C7. Close terminates the loops: after Connect, once the soft stop is triggered both loops
   exit whatever state they are in, and a Close that waits returns, with nil unless its
   context is done first. *)
CloseTerminates ==
    /\ (sig.soft /\ rl.pc # "off") ~> (LoopsExited /\ sig.stopped)
    /\ (cl.pc \in {"wait1", "wait2"} /\ rl.pc # "off") ~> (cl.pc \in {"nil", "err"})

(* The soft stop is triggered while the fetch loop is blocked in AddNew at capacity. *)
SoftStopWhileBlocked == sig.soft /\ rl.pc = "wait" /\ al.pc = "select"

(* C8. Shutdown with in-flight messages: when both loops have stopped, every undispatched
   message and every handle nacked through the channel has a reset entry and every acked
   handle a delete entry. *)
ShutdownSettlesAll ==
    sig.stopped =>
        \A m \in Msgs :
            /\ (m \in Range(rl.pending) /\ HasHandle(m)) => log.rst[m] > 0
            /\ m \in Nacked => log.rst[m] > 0
            /\ m \in Acked => log.del[m] > 0

(* C9. The first batch and those of it the ack loop has removed from the tracker. *)
FirstBatch == 1..conf.MaxNumberOfMessages
Removed == {m \in FirstBatch : cons[m] \in {"ack_chan", "nack_chan"}}

(* C9, as stated. Slow consumer: once two messages of the first batch have been acked the
   admission of the next batch is no longer blocked. *)
ReleasedAfterTwo ==
    (Cardinality(Removed) >= 2 /\ al.pc = "select") => rl.pc # "wait"

(* C9, amended. Slow consumer: AddNew admits the whole first batch, which leaves the tracker
   by acks and nacks only, and while the ack loop runs the next batch is admitted only when
   fewer than MaxOutstanding handles of the first are left: with a limit of two and five
   admitted, after four of them have been acked or nacked. *)
SlowConsumerAdmission ==
    al.pc \in {"select", "drain", "clear"} =>
        /\ (nextH >= conf.MaxNumberOfMessages
              /\ ~(nextH = conf.MaxNumberOfMessages /\ rl.pc = "addnew"))
           => handles \cap FirstBatch = FirstBatch \ Removed
        /\ \A m \in handles \ FirstBatch :
              Cardinality(FirstBatch \ Removed) < conf.MaxOutstanding

(* The next batch is in the tracker while the ack loop runs, one of the first is left. *)
SecondBatchAdmitted ==
    /\ al.pc = "select"
    /\ handles \ FirstBatch # {}
    /\ Cardinality(Removed) = conf.MaxNumberOfMessages - conf.MaxOutstanding + 1

(* C10. Refresh frequency: a handle that has been in the tracker for T > MessageTimeout
   seconds, every tick of which the ack loop has served and every refresh pass of which has
   completed, has at least T \div MessageTimeout extension entries. *)
RefreshFrequency ==
    (al.pc = "select" /\ ~log.lag /\ ~tickDue /\ rf.spawned = 0 /\ rf.pc = "idle") =>
        \A m \in handles :
            now - log.since[m] > conf.MessageTimeout =>
                log.ext[m] >= (now - log.since[m]) \div conf.MessageTimeout

----------------------------------------------------------------------------
(* The messages a Read call has been handed.  Messages are numbered in the order the queue
   service returned them: batch after batch, and within a batch in the order of the
   response. *)
Delivered == {m \in Msgs : cons[m] # "none"}

(* C11. Delivery order: the messages handed to Read so far are the first of those received,
   and readLoop still holds exactly the others, each once and in the order received: so a
   message is handed over only after every message received before it, and never again. *)
DeliveryOrder ==
    /\ Delivered = 1..Cardinality(Delivered)
    /\ rl.pending = [i \in 1..(nextH - Cardinality(Delivered)) |-> Cardinality(Delivered) + i]

(* Every message of several batches has been handed over. *)
DeliveredAcrossBatches ==
    /\ nextH > conf.MaxNumberOfMessages
    /\ Delivered = 1..nextH

----------------------------------------------------------------------------
(* C12 as stated. Nack with reset off: no handle is ever sent in a
   ChangeMessageVisibilityBatch call with timeout 0, and every handle the consumer has
   nacked is out of the tracker. *)
NackFreesSlot ==
    /\ \A m \in Msgs : log.rst[m] = 0
    /\ \A m \in Nacked : m \notin handles

(* C12. Nack with reset off: no handle is ever sent in a ChangeMessageVisibilityBatch call
   with timeout 0, whichever path the nack takes, and every handle whose nack the ack loop
   has taken from nackMessagesChan is out of the tracker.  (A nack that takes the soft-stop
   case of ackFn does not touch the tracker.) *)
NackWithoutReset ==
    /\ \A m \in Msgs : log.rst[m] = 0
    /\ \A m \in Msgs : cons[m] = "nack_chan" => m \notin handles

(* One nack went through the ack loop, one through the soft-stop case of ackFn, and the ack
   loop has made its last flush. *)
NackedBothWays ==
    /\ \E m \in Msgs : cons[m] = "nack_chan"
    /\ \E m \in Msgs : cons[m] = "nack_direct"
    /\ al.pc = "done"

----------------------------------------------------------------------------
(* C13 as stated. Ack with delete off: no handle is ever sent in a DeleteMessageBatch call,
   and every handle the consumer has acked is out of the tracker and marked DELETED. *)
AckFreesSlot ==
    /\ \A m \in Msgs : log.del[m] = 0
    /\ \A m \in Acked : m \notin handles /\ IsDeleted(deadline[m])

(* C13. Ack with delete off: no handle is ever sent in a DeleteMessageBatch call, whichever
   path the ack takes, and every handle whose ack the ack loop has taken from
   ackMessagesChan is out of the tracker and marked DELETED.  (An ack that takes the
   soft-stop case of ackFn touches neither the tracker nor the mark.) *)
AckWithoutDelete ==
    /\ \A m \in Msgs : log.del[m] = 0
    /\ \A m \in Msgs : cons[m] = "ack_chan" => (m \notin handles /\ IsDeleted(deadline[m]))

(* One ack went through the ack loop, one through the soft-stop case of ackFn, and the ack
   loop has made its last flush. *)
AckedBothWays ==
    /\ \E m \in Msgs : cons[m] = "ack_chan"
    /\ \E m \in Msgs : cons[m] = "ack_direct"
    /\ al.pc = "done"

----------------------------------------------------------------------------
(* C14. Idempotence of Close: a Close call entered after an earlier one has returned
   changes nothing of the reader but the call's own position: no stop signal, no tracker
   entry, no loop state, no call to the service. *)
CloseIdempotent ==
    [][(cl.pc \in {"nil", "err"} /\ cl'.pc \notin {"nil", "err"}) =>
           UNCHANGED <<sig, rl, al, rf, handles, deadline, log>>]_vars

----------------------------------------------------------------------------
(* C15. Close escalation: a Close whose ctx has a deadline and that is past its first
   select (the deadline was at most a second away, or the timer set to a second before it
   has fired) has triggered the hard stop; a Close that has returned because the deadline
   passed has triggered the hard stop; a Close that has not did return nil from its first
   select, the loops having stopped. *)
CloseEscalation ==
    /\ (cl.ok /\ cl.pc = "wait2") => sig.hard
    /\ (cl.pc = "err" /\ cl.err = "DeadlineExceeded") => sig.hard
    /\ (cl.ok /\ cl.pc = "nil" /\ ~sig.hard) => sig.stopped

(* Close has returned DeadlineExceeded while a loop was still running. *)
CloseDeadlineWhileRunning ==
    /\ cl.pc = "err"
    /\ cl.err = "DeadlineExceeded"
    /\ rl.pc \notin {"off", "done"}

----------------------------------------------------------------------------
(* C16. Read error set: a Read call that has taken a message from messagesChan, which it
   can only with its ctx live in that select, returns no error: no message ends as rejected
   with context.Canceled.  (ErrNotConnected, ErrEndOfInput and ctx.Err() are the steps
   ReadNotConnected, ReadEndOfInput and ReadCtxDone, which take no message.) *)
ReadErrorSet == \A m \in Msgs : cons[m] # "rejected"

(* C18. Malformed message: a message with a body and without an id or a receipt handle that
   readLoop has handed to Read has been returned to the consumer, without a crash, and is
   not in the tracker. *)
MalformedReturned ==
    \A m \in Delivered :
        (HasBody(m) /\ ~HasHandle(m)) => (cons[m] \in {"held", "noop"} /\ m \notin handles)

----------------------------------------------------------------------------
(* readLoop is in the select that offers pendingMsgs[0] on messagesChan: the only state in
   which a Read call can receive a message. *)
Offering == rl.pc = "dispatch"

(* C17. Read after shutdown: once Close has returned nil, readLoop offers no message, so a
   Read call cannot receive one, and the soft-stop case of Read's select is ready, so the
   call returns ErrEndOfInput (or ctx.Err()); and from the soft stop on a Read call always
   has a case it can take: it returns ErrNotConnected before Connect, and after Connect the
   soft-stop case is ready. *)
ReadAfterShutdown ==
    /\ cl.pc = "nil" => (~Offering /\ ~ENABLED Read /\ ENABLED ReadEndOfInput)
    /\ sig.soft => (ENABLED ReadNotConnected \/ ENABLED ReadEndOfInput)

(* Close has returned nil and readLoop was left with messages it never handed over. *)
ClosedWithPending == cl.pc = "nil" /\ rl.pending # <<>>

----------------------------------------------------------------------------
(* The step of an ackFn call for m that takes the soft-stop case of its select. *)
AckFnSoftStopStep(m) == cons[m] = "held" /\ cons'[m] \in {"ack_direct", "nack_direct"}

(* C19 as stated. ackFn during shutdown: the single-message call of an ackFn that takes the
   soft-stop case is governed by the hard-stop context: once the hard stop is triggered it
   is cancelled and the service receives nothing. *)
AckFnHardStopGoverned ==
    [][\A m \in Msgs : (sig.hard /\ AckFnSoftStopStep(m)) =>
           (log'.del = log.del /\ log'.rst = log.rst)]_vars

(* C19. ackFn during shutdown: an ackFn that takes the soft-stop case of its select, which
   it can only after the soft stop, sends the service exactly one entry, for its own handle:
   a delete if the result is nil, a reset (timeout 0) if not; and it does so whether or not
   the hard stop has been triggered, the call being made with the consumer's rctx. *)
AckFnShutdownCall ==
    [][\A m \in Msgs : AckFnSoftStopStep(m) =>
           /\ sig.soft
           /\ log'.ext = log.ext
           /\ cons'[m] = "ack_direct" =>
                  (log'.del = [log.del EXCEPT ![m] = @ + 1] /\ log'.rst = log.rst)
           /\ cons'[m] = "nack_direct" =>
                  (log'.rst = [log.rst EXCEPT ![m] = @ + 1] /\ log'.del = log.del)]_vars

(* After the hard stop and after Close returned, an ackFn has reset its handle itself. *)
AckFnCallAfterHardStop ==
    /\ sig.hard
    /\ "ackFn" \in log.late
    /\ \E m \in Msgs : cons[m] = "nack_direct" /\ log.rst[m] = 1

----------------------------------------------------------------------------
(* The step of a refresh goroutine that got the lock and calls PullToRefresh. *)
PullToRefreshStep == rf.pc = "idle" /\ rf'.spawned < rf.spawned

(* C20. PullToRefresh selection: a PullToRefresh call sets to now + MessageTimeout the
   deadline of exactly the tracked handles whose deadline minus now is less than
   MessageTimeout / 2, the handles it returns, leaves every other deadline as it was, and
   leaves the set of tracked handles as it was. *)
PullToRefreshSelection ==
    [][PullToRefreshStep =>
           LET due == {h \in handles : 2 * (deadline[h] - now) < conf.MessageTimeout}
           IN  /\ \A h \in due : deadline'[h] = now + conf.MessageTimeout
               /\ \A h \in Msgs \ due : deadline'[h] = deadline[h]
               /\ handles' = handles]_vars

----------------------------------------------------------------------------
(* The handles AddNew has inserted into the tracker. *)
Admitted == log.adm

(* C21. Tracker membership: as long as the reader has not been asked to stop, a handle that
   AddNew has admitted is in the tracker if and only if the consumer has neither acked nor
   nacked it; also when the queue delivers a message again, under the same id, while the
   handle of the earlier delivery is tracked. *)
TrackerMembership ==
    ~sig.soft => \A m \in Admitted : (m \in handles <=> m \notin Acked \cup Nacked)

----------------------------------------------------------------------------
(* C22. Deleted sentinel: no handle whose deadline is the DELETED sentinel is in the
   tracker. *)
DeletedNotTracked == \A m \in Msgs : IsDeleted(deadline[m]) => m \notin handles

(* A handle is marked DELETED while another is tracked and has been extended by a refresh
   pass. *)
DeletedBesideRefreshed ==
    /\ \E m \in Msgs : IsDeleted(deadline[m])
    /\ \E h \in handles : log.ext[h] > 0

----------------------------------------------------------------------------
(* C23. Refresh versus ack race: once a handle is marked DELETED, the queue is sent no
   further ChangeMessageVisibilityBatch entry that extends it. *)
NoExtensionAfterAck ==
    [][\A m \in Msgs : IsDeleted(deadline[m]) => log'.ext[m] = log.ext[m]]_vars

----------------------------------------------------------------------------
(* The step of an AddNew call that was blocked in t.l.Wait() and has been woken, up to its
   return or its next Wait. *)
AddNewWokenStep == rl.pc = "woken" /\ rl'.pc # "woken"

(* C24. Admission under cancellation: an AddNew call that was blocked with the tracker at
   capacity and is woken, by Remove or by Clear, after the soft stop has cancelled its ctx,
   inserts none of its messages into the tracker. *)
AddNewRespectsCancel ==
    [][(AddNewWokenStep /\ sig.soft) => (handles' = handles /\ log'.adm = log.adm)]_vars

(* C25. Final drain of the ack loop: the last flushes and the deferred Clear leave the
   tracker empty, so that once both loops have stopped no handle is tracked. *)
TrackerEmptyAtEnd == LoopsExited => handles = {}

----------------------------------------------------------------------------
(* The step of readLoop's deferred function. *)
FinaliserStep == rl.pc = "final" /\ rl'.pc = "done"

(* C26. Fetch-loop finaliser: readLoop exits on the soft stop only, and its deferred
   function then makes the reset call (timeout 0) under the hard-stop context: when
   ResetVisibility is on and the hard stop has not been triggered, the service receives
   exactly one reset entry for every message with a handle that is still in pendingMsgs,
   and none otherwise; no message that was handed to a Read call is in pendingMsgs, and
   none gets an entry. *)
FinaliserResetsPending ==
    [][FinaliserStep =>
           /\ sig.soft
           /\ Range(rl.pending) \cap Delivered = {}
           /\ log'.del = log.del
           /\ log'.ext = log.ext
           /\ \A m \in Msgs :
                  log'.rst[m] = log.rst[m] +
                      (IF conf.ResetVisibility /\ ~sig.hard
                          /\ m \in Range(rl.pending) /\ HasHandle(m)
                       THEN 1 ELSE 0)]_vars

(* readLoop has exited with a message it never handed over, which its deferred function
   has reset, a message without a handle beside it, and a message the consumer holds. *)
FinaliserHasReset ==
    /\ rl.pc = "done"
    /\ \E m \in Range(rl.pending) : HasHandle(m) /\ log.rst[m] = 1
    /\ \E m \in Range(rl.pending) : ~HasHandle(m)
    /\ \E m \in Msgs : cons[m] = "held" /\ log.rst[m] = 0

----------------------------------------------------------------------------
(* A goroutine started by a tick runs refreshCurrentHandles. *)
RefreshGoroutineStep == rf'.spawned < rf.spawned

(* ackLoop serves a tick while a refresh pass is in flight. *)
TickDuringPass == rf'.spawned > rf.spawned /\ rf.pc # "idle"

(* C27. Single refresh pass: a goroutine that finds a pass in flight returns at once and
   changes neither the tracker, nor a deadline, nor the pass in flight, and sends nothing;
   the tick that started it has flushed as every tick does: one delete entry for each
   handle of pendingAcks, one reset entry for each handle of pendingNacks that is not marked
   DELETED, and it has left the tracker and the pass alone. *)
SingleRefreshPass ==
    [][/\ (RefreshGoroutineStep /\ rf.pc # "idle") =>
              /\ rf' = [rf EXCEPT !.spawned = @ - 1]
              /\ handles' = handles
              /\ deadline' = deadline
              /\ log' = log
       /\ TickDuringPass =>
              /\ rf' = [rf EXCEPT !.spawned = @ + 1]
              /\ handles' = handles
              /\ deadline' = deadline
              /\ log'.ext = log.ext
              /\ \A m \in Msgs :
                     /\ log'.del[m] = log.del[m] +
                            (IF conf.DeleteMessage /\ ~sig.hard /\ m \in Range(al.pendingAcks)
                             THEN 1 ELSE 0)
                     /\ log'.rst[m] = log.rst[m] +
                            (IF conf.ResetVisibility /\ ~sig.hard /\ m \in Range(al.pendingNacks)
                                /\ ~IsDeleted(deadline[m])
                             THEN 1 ELSE 0)]_vars

(* A pass that started at the first tick is still in flight after the second tick, whose
   goroutine has returned and whose flush has deleted the acked handle once more. *)
SecondTickSkipped ==
    /\ now = 2
    /\ ~tickDue
    /\ rf.spawned = 0
    /\ rf.pc = "send"
    /\ \E m \in Range(rf.sent) : deadline[m] = 1 + conf.MessageTimeout
    /\ \E m \in Msgs : cons[m] = "ack_chan" /\ log.del[m] = 2

----------------------------------------------------------------------------
(* readLoop calls getMsgs, which issues one ReceiveMessage. *)
ReceiveStep == rl.pc = "loop" /\ rl'.pc \in {"addnew", "backoff"}

(* C28. Fetch only when drained: ReceiveMessage is issued only when pendingMsgs is empty
   and every message received before has been handed to a Read call, so pendingMsgs never
   holds more than one response (at most MaxNumberOfMessages messages), and no message is
   received while an earlier one waits for a consumer. *)
FetchOnlyWhenDrained ==
    [][/\ Len(rl'.pending) <= conf.MaxNumberOfMessages
       /\ nextH' # nextH => ReceiveStep
       /\ ReceiveStep =>
              /\ rl.pending = <<>>
              /\ \A m \in 1..nextH : m \in Delivered
              /\ Range(rl'.pending) = (nextH + 1)..nextH']_vars

(* A full response waits for a consumer after an earlier response has been handed over. *)
FullBatchAfterDrain ==
    /\ Len(rl.pending) = conf.MaxNumberOfMessages
    /\ nextH > Len(rl.pending)
    /\ rl.pc = "dispatch"

----------------------------------------------------------------------------
(* ackLoop serves a tick. *)
TickStep == rf'.spawned > rf.spawned

(* C29. Threshold flush: after every step of ackLoop pendingAcks and pendingNacks each hold
   fewer than MaxNumberOfMessages handles, and after a tick none. *)
PendingBelowThreshold ==
    [][/\ Len(al'.pendingAcks) < conf.MaxNumberOfMessages
       /\ Len(al'.pendingNacks) < conf.MaxNumberOfMessages
       /\ TickStep => (al'.pendingAcks = <<>> /\ al'.pendingNacks = <<>>)]_vars

----------------------------------------------------------------------------
(* The entries of the calls cs, in the order they are sent. *)
RECURSIVE EntriesInOrder(_)
EntriesInOrder(cs) == IF cs = <<>> THEN <<>> ELSE Head(cs).ids \o EntriesInOrder(Tail(cs))

(* The calls of a flush of pendingAcks, of a flush of pendingNacks, of readLoop's deferred
   function and of the rest of the refresh pass in flight, were they made now. *)
AckFlush == flushFinishedHandles(al.pendingAcks, TRUE, deadline)
NackFlush == flushFinishedHandles(al.pendingNacks, FALSE, deadline)
FinaliserCalls == resetMessages(ctx("readLoop"), SelectSeq(rl.pending, HasHandle), deadline)
RefreshCalls ==
    updateVisibilityMessages(closeNowCtx("refresh"), conf.MessageTimeout, rf.cur, deadline)

AtMostTenEntries ==
    /\ \A cs \in {AckFlush, NackFlush, FinaliserCalls, RefreshCalls} :
           \A i \in DOMAIN cs : Len(cs[i].ids) <= maxBatchSize
    /\ Len(rf.sent) <= maxBatchSize

(* C30. Batch shape: no call carries more than 10 entries; a flush of n handles sends the
   handles in the order they arrived, each in exactly one call, and a flush of acks takes
   ceil(n/10) calls. *)
BatchShape ==
    /\ AtMostTenEntries
    /\ EntriesInOrder(AckFlush) = al.pendingAcks
    /\ Len(AckFlush) = (Len(al.pendingAcks) + maxBatchSize - 1) \div maxBatchSize
    /\ EntriesInOrder(NackFlush) = al.pendingNacks

(* What the batching functions do: no call carries more than 10 entries; deleteMessages
   sends every handle it is given, in order, in ceil(n/10) calls; updateVisibilityMessages
   sends in order the handles that are not marked DELETED, each once. *)
BatchShapeSkippingDeleted ==
    /\ AtMostTenEntries
    /\ EntriesInOrder(AckFlush) = al.pendingAcks
    /\ Len(AckFlush) = (Len(al.pendingAcks) + maxBatchSize - 1) \div maxBatchSize
    /\ EntriesInOrder(NackFlush) = SelectSeq(al.pendingNacks, LAMBDA m : ~IsDeleted(deadline[m]))
    /\ EntriesInOrder(FinaliserCalls) = SelectSeq(rl.pending, HasHandle)
    /\ EntriesInOrder(RefreshCalls) = SelectSeq(rf.cur, LAMBDA m : ~IsDeleted(deadline[m]))

----------------------------------------------------------------------------
(* getMsgs returns from AddNew, after a response with messages. *)
AddNewReturnStep == rl.pc \in {"addnew", "woken"} /\ rl'.pc = "dispatch"

(* C31. Backoff reset rule: the backoff is reset after a ReceiveMessage call exactly when
   the call succeeded and returned a message or WaitTimeSeconds > 0. After a failed call,
   and after an empty response with long polling off, the next sleep is one interval
   longer, up to the longest; after an empty response with long polling on it is the
   interval that follows the initial one; after a response with messages the backoff is
   back at the initial interval once getMsgs returns; no other step changes it. *)
BackoffResetRule ==
    [][/\ (ReceiveStep /\ rl'.pc = "backoff") =>
              rl'.backoff = Min(env.maxBackoff,
                                1 + (IF ~rl'.err /\ conf.WaitTimeSeconds > 0 THEN 0 ELSE rl.backoff))
       /\ (ReceiveStep /\ rl'.pc = "backoff" /\ conf.WaitTimeSeconds = 0) =>
              rl'.backoff >= rl.backoff
       /\ (ReceiveStep /\ rl'.pc = "addnew") => (rl'.backoff = rl.backoff /\ nextH' > nextH)
       /\ AddNewReturnStep => rl'.backoff = 0
       /\ (~ReceiveStep /\ ~AddNewReturnStep) => rl'.backoff = rl.backoff]_vars

(* With long polling off, empty responses after a response with messages have brought
   the backoff to its longest interval. *)
BackoffAtCap ==
    /\ conf.WaitTimeSeconds = 0
    /\ rl.pc = "backoff"
    /\ ~rl.err
    /\ rl.backoff = MaxBackoff
    /\ nextH > 0

----------------------------------------------------------------------------
(* A call of the consumer returns the error of its cancelled context. *)
CancelStep == log'.cancelled # log.cancelled

(* C32. Consumer cancellation is local: a Read or an ackFn that returns the error of its
   context changes nothing of the reader: not the stop signals, not readLoop, ackLoop or a
   refresh pass, not the tracker, a deadline or the pending slices; it sends nothing, and
   the consumer holds what it held. *)
CancellationIsLocal ==
    [][CancelStep =>
           /\ sig' = sig
           /\ rl' = rl
           /\ al' = al
           /\ rf' = rf
           /\ cl' = cl
           /\ handles' = handles
           /\ deadline' = deadline
           /\ cons' = cons
           /\ log'.del = log.del /\ log'.rst = log.rst /\ log'.ext = log.ext]_vars

(* A Read and an ackFn have returned the error of their context, and afterwards the
   message of the ackFn was acked through ackLoop, which is still running. *)
CancelledThenAcked ==
    /\ log.cancelled = {"Read", "ackFn"}
    /\ ~sig.soft
    /\ al.pc = "select"
    /\ \E m \in Msgs : cons[m] = "ack_chan"

----------------------------------------------------------------------------
(* The loops that run, and the trackers in use. *)
Workers ==
    (IF rl.pc \in {"off", "done", "dead"} THEN 0 ELSE 1)
    + (IF al.pc \in {"off", "done", "dead"} THEN 0 ELSE 1)
    + more.loops
Trackers == (IF al.pc \in {"off", "dead"} THEN 0 ELSE 1) + more.trackers

(* C33. Worker count: a connected reader that has not been told to stop runs exactly two
   loops on one tracker, however often Connect was called, and has-stopped is signalled
   only when every loop has exited. *)
WorkerCount ==
    /\ (al.pc \notin {"off", "dead"} /\ ~sig.soft) => (Workers = 2 /\ Trackers = 1)
    /\ sig.stopped => Workers = 0

----------------------------------------------------------------------------
(* C34. Delete only on ack: the service receives a delete entry for a message only after
   the consumer has called the message's ackFn with a nil result; a message that was not
   handed over, is held, was nacked or was only refreshed has none. *)
DeleteOnlyOnAck == \A m \in Msgs : log.del[m] > 0 => m \in Acked

(* After the loops have exited: an acked message is deleted, beside a nacked message and a
   message that was refreshed, neither of which is. *)
DeletedBesideNacked ==
    /\ LoopsExited
    /\ \E m \in Acked : log.del[m] > 0
    /\ \E m \in Msgs \ Acked : (m \in Nacked \/ log.ext[m] > 0) /\ log.del[m] = 0

----------------------------------------------------------------------------
(* C35. Tracker slots are reclaimed: with a consumer that settles every message Read gives
   it, a handle in the tracker of a running reader is eventually removed, and readLoop does
   not wait in AddNew for ever. *)
SlotsReclaimed ==
    /\ \A m \in 1..(NumMsgs + 1) : (m \in handles) ~> (m \notin handles \/ sig.soft)
    /\ (rl.pc = "wait") ~> (rl.pc # "wait")

----------------------------------------------------------------------------
(* The batch calls a step makes: the two flushes of a tick and of ackLoop's exit, the
   threshold flush of the ack and nack cases, the batch a refresh pass sends, and the
   reset of readLoop's deferred function. *)
StepCalls ==
    IF TickStep \/ (al.pc = "drain" /\ al'.pc = "clear") THEN AckFlush \o NackFlush
    ELSE IF al'.pendingAcks # al.pendingAcks
    THEN (IF Len(al'.pendingAcks) >= conf.MaxNumberOfMessages
          THEN flushFinishedHandles(al'.pendingAcks, TRUE, deadline') ELSE <<>>)
    ELSE IF al'.pendingNacks # al.pendingNacks
    THEN (IF Len(al'.pendingNacks) >= conf.MaxNumberOfMessages
          THEN flushFinishedHandles(al'.pendingNacks, FALSE, deadline') ELSE <<>>)
    ELSE IF rf.pc = "send" /\ rf' # rf
    THEN <<VisCall(closeNowCtx("refresh"), rf.sent, conf.MessageTimeout)>>
    ELSE IF FinaliserStep /\ rl.pending # <<>> THEN FinaliserCalls
    ELSE <<>>

(* C36. No empty batch calls: no ChangeMessageVisibilityBatch and no DeleteMessageBatch
   call that reaches the service has zero entries, also when every handle of the flush or
   of the refresh batch is marked DELETED. *)
NoEmptyBatchCalls ==
    [][\A i \in DOMAIN Issued(StepCalls) : Issued(StepCalls)[i].ids # <<>>]_vars

(* The delete calls have entries: what deleteMessages does, which skips nothing. *)
NoEmptyDeleteCalls ==
    [][\A i \in DOMAIN Issued(StepCalls) :
           Issued(StepCalls)[i].op = "DeleteMessageBatch" => Issued(StepCalls)[i].ids # <<>>]_vars

----------------------------------------------------------------------------
(* C39. Close always returns: a Close that has been called eventually returns, also on a
   reader that was never connected and with a ctx that has no deadline and is not
   cancelled. *)
CloseAlwaysReturns == (cl.pc \in {"wait1", "wait2"}) ~> (cl.pc \in {"nil", "err"})

(* A Close whose ctx has a deadline returns, and so does a Close on a connected reader. *)
CloseReturnsWithDeadlineOrLoops ==
    (cl.pc \in {"wait1", "wait2"} /\ (cl.ok \/ rl.pc # "off")) ~> (cl.pc \in {"nil", "err"})

----------------------------------------------------------------------------
(* Every received message that has a handle either was handed to a Read call or is in
   pendingMsgs, once, and not both. *)
DispatchedOrPending ==
    /\ \A m \in 1..nextH : HasHandle(m) => ((m \in Delivered) # (m \in Range(rl.pending)))
    /\ \A i, j \in DOMAIN rl.pending : rl.pending[i] = rl.pending[j] => i = j

(* C38. Dispatch or reset, never both: a received message that has a handle is handed to a
   Read call, once, or it is still in pendingMsgs when readLoop exits and the deferred
   function resets it; a message that was handed over is not reset by the deferred
   function and a message that it resets is not handed over later, however the send and
   the soft stop interleave. *)
DispatchOrReset ==
    [][/\ DispatchedOrPending
       /\ DispatchedOrPending'
       /\ \A m \in Msgs :
              /\ cons[m] # "none" => cons'[m] # "none"
              /\ (cons[m] = "none" /\ cons'[m] # "none") =>
                     /\ rl.pc = "dispatch"
                     /\ m = Head(rl.pending)
                     /\ m \notin Range(rl'.pending)
              /\ (rl.pc \in {"final", "done"} /\ cons[m] = "none") => cons'[m] = "none"
       /\ rl.pc \in {"final", "done"} => rl'.pending = rl.pending
       /\ (FinaliserStep /\ conf.ResetVisibility /\ ~sig.hard) =>
              \A m \in Msgs :
                  log'.rst[m] = log.rst[m]
                                + (IF m \in Range(rl.pending) /\ HasHandle(m) THEN 1 ELSE 0)]_vars

(* readLoop has exited after the soft stop met it in its dispatch select: one message was
   handed over and is held, another was still pending and has its one reset entry. *)
DispatchedBesideReset ==
    /\ rl.pc = "done"
    /\ nextH = env.nMsgs
    /\ \E m \in Delivered : HasHandle(m) /\ cons[m] = "held" /\ log.rst[m] = 0
    /\ \E m \in Range(rl.pending) : HasHandle(m) /\ cons[m] = "none" /\ log.rst[m] = 1

----------------------------------------------------------------------------
(* C37. DELETED is absorbing: once the deadline of a handle is DELETED, no step stores
   another value in it, however the ack loops and the refresh passes interleave. *)
DeletedIsAbsorbing ==
    [][\A m \in Msgs : deadline[m] = DELETED => deadline'[m] = DELETED]_vars

============================================================================
